---- MODULE Spec2Model ----
(***************************************************************************)
(* Grid-trading controller of src/ceshi.py: the order-lifecycle state      *)
(* machine of GridTrader / OrderManager against an exchange (BinanceAPI).  *)
(*                                                                         *)
(* Fixed point: a price is an integer number of 1/PriceScale, a quantity   *)
(* an integer number of 1/QtyScale, a fraction (drop_to_buy, rise_to_sell) *)
(* an integer number of 1/FracScale.  With prices on the tick grid every   *)
(* product price * (1 +/- fraction) is exact in these units.               *)
(***************************************************************************)
EXTENDS Integers, Sequences, FiniteSets, TLC

\* ---- bounds of the model ----
MaxId == 7            \* order ids the exchange hands out: 1..MaxId
max_buy_times == 2    \* TraderConfig.max_buy_times (rungs of the ladder)

\* ---- units ----
PriceScale == 100000  \* price unit 0.00001
QtyScale == 10000     \* quantity unit 0.0001
FracScale == 1000     \* fraction unit 0.001
TickSize == 1000      \* symbol_info['tickSize'] = 0.01
QtyStep == 100        \* symbol_info['quantityPrecision'] = 2 decimals

\* ---- TraderConfig ----
leverage == 10
total_margin == 180
drop_to_buy == 1      \* 0.001
rise_to_sell == 1     \* 0.001

\* market prices the ticker can return (600.00 and 601.00); None is 0
MarketPrices == {600 * PriceScale, 601 * PriceScale}
None == 0
\* None where an order is expected
NoOrder == [id |-> 0, price |-> 0, origQty |-> 0]

Ids == 1..MaxId
Open == {"NEW", "PARTIALLY_FILLED"}

VARIABLES
  buy_orders,        \* OrderManager.buy_orders: sequence (insertion order) of orders
  sell_orders,       \* OrderManager.sell_orders
  buy_order_filled,  \* OrderManager.buy_order_filled
  base_price,        \* GridTrader.base_price (None = 0)
  new_cycle_flag,    \* GridTrader.new_cycle_flag
  pc,                \* position in the body of the loop of GridTrader.trade
  status,            \* exchange: status of every tracked order ("NONE" otherwise)
  next_id,           \* exchange: next order id to hand out
  log,               \* history: how the tracked orders, and the orders they were
                     \* made from, were created
  trace,             \* history: API calls of the last handler that ran
  last_start,        \* history: outcome of the cycle-start step of the current tick
  ran,               \* history: the step that ran last
  before             \* history: the tracked orders before the step that ran last

vars == <<buy_orders, sell_orders, buy_order_filled, base_price, new_cycle_flag,
          pc, status, next_id, log, trace, last_start, ran, before>>

\* ---- arithmetic ----
\* p * (m / FracScale), split so that no intermediate exceeds 32 bits
MulFrac(p, m) == (p \div FracScale) * m + ((p % FracScale) * m) \div FracScale

\* math.floor(price / tick_size) * tick_size
TickFloor(p) == (p \div TickSize) * TickSize

\* round(amount, quantityPrecision): round half to even
RoundQty(q) ==
  LET lo == (q \div QtyStep) * QtyStep
      r  == q % QtyStep
  IN  IF 2 * r < QtyStep THEN lo
      ELSE IF 2 * r > QtyStep THEN lo + QtyStep
      ELSE IF (lo \div QtyStep) % 2 = 0 THEN lo ELSE lo + QtyStep

\* x / price for a price on the tick grid
DivPrice(x, p) == (x * (PriceScale \div TickSize)) \div (p \div TickSize)

\* ---- sequences used as insertion-ordered dicts ----
RECURSIVE SeqIds(_)
SeqIds(s) == IF s = <<>> THEN {} ELSE {Head(s).id} \cup SeqIds(Tail(s))

\* del d[id]
RECURSIVE Del(_, _)
Del(s, id) ==
  IF s = <<>> THEN <<>>
  ELSE IF Head(s).id = id THEN Tail(s)
  ELSE <<Head(s)>> \o Del(Tail(s), id)

NoLog == [kind |-> "none", src |-> 0, req_price |-> 0, req_qty |-> 0, price |-> 0, origQty |-> 0]

\* an API call: src is the order a submitted order is made for (history)
Event(op, id, side, price, qty, res, src) ==
  [op |-> op, id |-> id, side |-> side, price |-> price, qty |-> qty, res |-> res, src |-> src]

\* ---- the machine state the handlers work on ----
St == [buy_orders |-> buy_orders, sell_orders |-> sell_orders,
       buy_order_filled |-> buy_order_filled, base_price |-> base_price,
       new_cycle_flag |-> new_cycle_flag, status |-> status, next_id |-> next_id,
       log |-> log, trace |-> <<>>]

\* ---- BinanceAPI: every call returns the set of its possible outcomes,   ----
\* ---- each an [st, ret] pair                                            ----

\* create_order: None when the symbol info or the request fails, otherwise the
\* order as acknowledged (price floored to the tick, quantity rounded).
\* kind and src only annotate the history.
create_order(st, side, price, amount, kind, src) ==
  LET id  == st.next_id
      p   == TickFloor(price)
      q   == RoundQty(amount)
      bad == [st |-> [st EXCEPT !.trace = Append(@, Event("create", 0, side, price, amount, "None", src))],
              ret |-> NoOrder]
      ok  == [st |-> [st EXCEPT !.status[id] = "NEW",
                                !.next_id = id + 1,
                                !.log[id] = [kind |-> kind, src |-> src, req_price |-> price,
                                             req_qty |-> amount, price |-> p, origQty |-> q],
                                !.trace = Append(@, Event("create", id, side, price, amount, "ok", src))],
              ret |-> [id |-> id, price |-> p, origQty |-> q]]
  IN  {bad} \cup (IF id <= MaxId THEN {ok} ELSE {})

\* executedQty the exchange reports for an order
ExecutedQty(st, o) ==
  CASE st.status[o.id] = "FILLED" -> o.origQty
    [] st.status[o.id] = "PARTIALLY_FILLED" -> o.origQty \div 2
    [] OTHER -> 0

\* check_order_status: (status, executedQty) or (None, 0)
check_order_status(st, o) ==
  { [st |-> [st EXCEPT !.trace = Append(@, Event("status", o.id, "", 0, 0, "None", 0))],
     ret |-> [status |-> "None", filled |-> 0]],
    [st |-> [st EXCEPT !.trace = Append(@, Event("status", o.id, "", 0, ExecutedQty(st, o), st.status[o.id], 0))],
     ret |-> [status |-> st.status[o.id], filled |-> ExecutedQty(st, o)]] }

\* cancel_order: returns nothing; the exchange cancels an open order, any
\* other request (or a transport error) leaves the order as it is.  The event
\* records the order's status on the exchange after the call.
cancel_order(st, id) ==
  { [st EXCEPT !.trace = Append(@, Event("cancel", id, "", 0, 0, st.status[id], 0))] }
  \cup (IF st.status[id] \in Open
        THEN { [st EXCEPT !.status[id] = "CANCELED",
                          !.trace = Append(@, Event("cancel", id, "", 0, 0, "CANCELED", 0))] }
        ELSE {})

\* get_market_price: the price, or None on any error
get_market_price(st) ==
  { [st |-> [st EXCEPT !.trace = Append(@, Event("price", 0, "", p, 0, IF p = None THEN "None" ELSE "ok", 0))],
     ret |-> p] : p \in MarketPrices \cup {None} }

\* ---- OrderManager ----

\* faulty variant of place_loop: the rungs are numbered from 0 (range(0, n))
RECURSIVE place_loop_from0(_, _, _, _)
place_loop_from0(st, base, amount, i) ==
  IF i > max_buy_times THEN {st}
  ELSE UNION { IF c.ret = NoOrder
               THEN {c.st}
               ELSE UNION { place_loop_from0(s, base, amount, i + 1)
                            : s \in {[c.st EXCEPT !.buy_orders = Append(@, c.ret)]} }
               : c \in create_order(st, "buy", MulFrac(base, FracScale - drop_to_buy * (i - 1)),
                                    amount, "ladder", 0) }

\* faulty variant of place_loop: a failed rung is skipped (continue for return)
RECURSIVE place_loop_continue(_, _, _, _)
place_loop_continue(st, base, amount, i) ==
  IF i > max_buy_times THEN {st}
  ELSE UNION { IF c.ret = NoOrder
               THEN place_loop_continue(c.st, base, amount, i + 1)
               ELSE UNION { place_loop_continue(s, base, amount, i + 1)
                            : s \in {[c.st EXCEPT !.buy_orders = Append(@, c.ret)]} }
               : c \in create_order(st, "buy", MulFrac(base, FracScale - drop_to_buy * i),
                                    amount, "ladder", 0) }

\* the loop of place_buy_orders over buy_prices[i..]
RECURSIVE place_loop(_, _, _, _)
place_loop(st, base, amount, i) ==
  IF i > max_buy_times THEN {st}
  ELSE UNION { IF c.ret = NoOrder
               THEN {c.st}
               ELSE UNION { place_loop(s, base, amount, i + 1)
                            : s \in {[c.st EXCEPT !.buy_orders = Append(@, c.ret)]} }
               : c \in create_order(st, "buy", MulFrac(base, FracScale - drop_to_buy * i),
                                    amount, "ladder", 0) }

place_buy_orders(st, base) ==
  LET single_margin == (total_margin * QtyScale) \div max_buy_times
      single_amount == DivPrice(single_margin * leverage, base)
  IN  place_loop(st, base, single_amount, 1)

\* cancel_all_orders: the loop over list(self.buy_orders.keys())
RECURSIVE cancel_loop(_, _)
cancel_loop(st, ids) ==
  IF ids = <<>> THEN {st}
  ELSE UNION { UNION { cancel_loop(s2, Tail(ids))
                       : s2 \in {[s EXCEPT !.buy_orders = Del(@, Head(ids).id)]} }
               : s \in cancel_order(st, Head(ids).id) }

\* faulty variant of cancel_all_orders: the tracked sells are dropped as well
cancel_all_orders_sells(st) ==
  { [s EXCEPT !.sell_orders = <<>>] : s \in cancel_loop(st, st.buy_orders) }

cancel_all_orders(st) == cancel_loop(st, st.buy_orders)

\* faulty variant of sell_retry: retry_count is decremented after a success too,
\* so the loop submits again until the count is used up
RECURSIVE sell_retry_nostop(_, _, _, _, _)
sell_retry_nostop(st, o, sell_price, filled_amount, retry_count) ==
  IF retry_count = 0 THEN {[st |-> st, ret |-> NoOrder]}
  ELSE UNION { IF c.ret = NoOrder
               THEN sell_retry_nostop(c.st, o, sell_price, filled_amount, retry_count - 1)
               ELSE { [st |-> r.st, ret |-> c.ret]
                      : r \in sell_retry_nostop([c.st EXCEPT !.sell_orders = Append(@, c.ret)],
                                                o, sell_price, filled_amount, retry_count - 1) }
               : c \in create_order(st, "sell", sell_price, filled_amount, "conv", o.id) }

\* the retry loop of check_and_place_sell_orders, lines 166-175
RECURSIVE sell_retry(_, _, _, _, _)
sell_retry(st, o, sell_price, filled_amount, retry_count) ==
  IF retry_count = 0 THEN {[st |-> st, ret |-> NoOrder]}
  ELSE UNION { IF c.ret = NoOrder
               THEN sell_retry(c.st, o, sell_price, filled_amount, retry_count - 1)
               ELSE {[st |-> [c.st EXCEPT !.sell_orders = Append(@, c.ret)], ret |-> c.ret]}
               : c \in create_order(st, "sell", sell_price, filled_amount, "conv", o.id) }

\* faulty variant of place_sell_body: the converted buy is not deleted
place_sell_body_nodel(st, o) ==
  UNION { IF q.ret.status \in {"FILLED", "PARTIALLY_FILLED"}
          THEN UNION { IF o.origQty = q.ret.filled
                       THEN { r.st
                              : r \in sell_retry(s1, o, MulFrac(o.price, FracScale + rise_to_sell),
                                                 q.ret.filled, 3) }
                       ELSE {s1}
                       : s1 \in {[q.st EXCEPT !.buy_order_filled = TRUE]} }
          ELSE {q.st}
          : q \in check_order_status(st, o) }

\* faulty variant of place_sell_body: a partially filled buy is converted too
place_sell_body_partial(st, o) ==
  UNION { IF q.ret.status \in {"FILLED", "PARTIALLY_FILLED"}
          THEN UNION { { IF r.ret # NoOrder
                         THEN [r.st EXCEPT !.buy_orders = Del(@, o.id)]
                         ELSE r.st
                         : r \in sell_retry(s1, o, MulFrac(o.price, FracScale + rise_to_sell),
                                            q.ret.filled, 3) }
                       : s1 \in {[q.st EXCEPT !.buy_order_filled = TRUE]} }
          ELSE {q.st}
          : q \in check_order_status(st, o) }

\* faulty variant of place_sell_body: buy_order_filled is set only for a buy
\* that is filled completely
place_sell_body_flagfull(st, o) ==
  UNION { IF q.ret.status \in {"FILLED", "PARTIALLY_FILLED"} /\ o.origQty = q.ret.filled
          THEN UNION { { IF r.ret # NoOrder
                         THEN [r.st EXCEPT !.buy_orders = Del(@, o.id)]
                         ELSE r.st
                         : r \in sell_retry(s1, o, MulFrac(o.price, FracScale + rise_to_sell),
                                            q.ret.filled, 3) }
                       : s1 \in {[q.st EXCEPT !.buy_order_filled = TRUE]} }
          ELSE {q.st}
          : q \in check_order_status(st, o) }

\* the body of the loop of check_and_place_sell_orders for one buy order
place_sell_body(st, o) ==
  UNION { IF q.ret.status \in {"FILLED", "PARTIALLY_FILLED"}
          THEN UNION { IF o.origQty = q.ret.filled
                       THEN { IF r.ret # NoOrder
                              THEN [r.st EXCEPT !.buy_orders = Del(@, o.id)]
                              ELSE r.st
                              : r \in sell_retry(s1, o, MulFrac(o.price, FracScale + rise_to_sell),
                                                 q.ret.filled, 3) }
                       ELSE {s1}
                       : s1 \in {[q.st EXCEPT !.buy_order_filled = TRUE]} }
          ELSE {q.st}
          : q \in check_order_status(st, o) }

RECURSIVE place_sell_loop(_, _)
place_sell_loop(st, items) ==
  IF items = <<>> THEN {st}
  ELSE UNION { place_sell_loop(s, Tail(items)) : s \in place_sell_body(st, Head(items)) }

check_and_place_sell_orders(st) == place_sell_loop(st, st.buy_orders)

\* ---- GridTrader ----

start_trade_cycle(st) ==
  UNION { UNION { UNION { UNION { IF s3.base_price = None
                                  THEN {s3}
                                  ELSE place_buy_orders(s3, s3.base_price)
                                  : s3 \in {[m.st EXCEPT !.base_price = m.ret]} }
                          : m \in get_market_price(s2) }
                  : s2 \in cancel_all_orders(s1) }
          : s1 \in {[st EXCEPT !.buy_order_filled = FALSE]} }

\* faulty variant of all_filled_loop: a failed status query counts as FILLED
RECURSIVE all_filled_loop_lenient(_, _, _)
all_filled_loop_lenient(st, items, all) ==
  IF items = <<>> THEN {[st |-> st, all |-> all]}
  ELSE UNION { all_filled_loop_lenient(q.st, Tail(items),
                                       all /\ q.ret.status \in {"FILLED", "None"})
               : q \in check_order_status(st, Head(items)) }

\* first loop of check_and_replace_buy_orders, lines 228-232:
\* the set of [st, all] pairs, all = all_sell_orders_filled
RECURSIVE all_filled_loop(_, _, _)
all_filled_loop(st, items, all) ==
  IF items = <<>> THEN {[st |-> st, all |-> all]}
  ELSE UNION { all_filled_loop(q.st, Tail(items), all /\ q.ret.status = "FILLED")
               : q \in check_order_status(st, Head(items)) }

\* faulty variant of replace_loop: the replaced sell is not deleted
RECURSIVE replace_loop_nodel(_, _)
replace_loop_nodel(st, items) ==
  IF items = <<>> THEN {st}
  ELSE LET o == Head(items)
       IN  UNION { IF q.ret.status = "FILLED"
                   THEN UNION { UNION { replace_loop_nodel(s, Tail(items))
                                        : s \in { IF c.ret # NoOrder
                                                  THEN [c.st EXCEPT !.buy_orders = Append(@, c.ret)]
                                                  ELSE c.st } }
                                : c \in create_order(q.st, "buy",
                                                     MulFrac(o.price, FracScale - drop_to_buy),
                                                     o.origQty, "repl", o.id) }
                   ELSE replace_loop_nodel(q.st, Tail(items))
                   : q \in check_order_status(st, o) }

\* second loop of check_and_replace_buy_orders, lines 241-253
RECURSIVE replace_loop(_, _)
replace_loop(st, items) ==
  IF items = <<>> THEN {st}
  ELSE LET o == Head(items)
       IN  UNION { IF q.ret.status = "FILLED"
                   THEN UNION { UNION { replace_loop(s, Tail(items))
                                        : s \in { IF c.ret # NoOrder
                                                  THEN [c.st EXCEPT !.buy_orders = Append(@, c.ret),
                                                                    !.sell_orders = Del(@, o.id)]
                                                  ELSE c.st } }
                                : c \in create_order(q.st, "buy",
                                                     MulFrac(o.price, FracScale - drop_to_buy),
                                                     o.origQty, "repl", o.id) }
                   ELSE replace_loop(q.st, Tail(items))
                   : q \in check_order_status(st, o) }

\* faulty variant of check_and_replace_buy_orders: the return of line 238 is missing
check_and_replace_buy_orders_noreturn(st) ==
  UNION { IF f.all /\ Len(f.st.sell_orders) > 0
          THEN UNION { replace_loop(s, s.sell_orders)
                       : s \in {[f.st EXCEPT !.sell_orders = Del(@, f.st.sell_orders[Len(f.st.sell_orders)].id),
                                             !.new_cycle_flag = TRUE]} }
          ELSE replace_loop(f.st, f.st.sell_orders)
          : f \in all_filled_loop(st, st.sell_orders, TRUE) }

\* faulty variant of check_and_replace_buy_orders: a completion drops every
\* tracked sell (sell_orders.clear() for the del of line 236)
check_and_replace_buy_orders_clear(st) ==
  UNION { IF f.all /\ Len(f.st.sell_orders) > 0
          THEN {[f.st EXCEPT !.sell_orders = <<>>, !.new_cycle_flag = TRUE]}
          ELSE replace_loop(f.st, f.st.sell_orders)
          : f \in all_filled_loop(st, st.sell_orders, TRUE) }

check_and_replace_buy_orders(st) ==
  UNION { IF f.all /\ Len(f.st.sell_orders) > 0
          THEN \* order_id is the key the first loop ended on
               {[f.st EXCEPT !.sell_orders = Del(@, f.st.sell_orders[Len(f.st.sell_orders)].id),
                             !.new_cycle_flag = TRUE]}
          ELSE replace_loop(f.st, f.st.sell_orders)
          : f \in all_filled_loop(st, st.sell_orders, TRUE) }

\* the list comprehension of check_price_rise, lines 209-211:
\* the set of [st, any] pairs, any = partial_filled
RECURSIVE partial_loop(_, _, _)
partial_loop(st, items, any) ==
  IF items = <<>> THEN {[st |-> st, any |-> any]}
  ELSE UNION { partial_loop(q.st, Tail(items), any \/ q.ret.status = "PARTIALLY_FILLED")
               : q \in check_order_status(st, Head(items)) }

\* faulty variant of check_price_rise: a partially filled buy does not hold
\* the restart back
check_price_rise_nopartial(st) ==
  UNION { IF ~ p.st.buy_order_filled
          THEN { IF m.ret # None /\ m.st.base_price # None
                    /\ m.ret > MulFrac(m.st.base_price, FracScale + rise_to_sell)
                 THEN [m.st EXCEPT !.new_cycle_flag = TRUE]
                 ELSE m.st
                 : m \in get_market_price(p.st) }
          ELSE {p.st}
          : p \in partial_loop(st, st.buy_orders, FALSE) }

\* faulty variant of check_price_rise: buy_order_filled is not consulted
check_price_rise_noflag(st) ==
  UNION { IF ~ p.any
          THEN { IF m.ret # None /\ m.st.base_price # None
                    /\ m.ret > MulFrac(m.st.base_price, FracScale + rise_to_sell)
                 THEN [m.st EXCEPT !.new_cycle_flag = TRUE]
                 ELSE m.st
                 : m \in get_market_price(p.st) }
          ELSE {p.st}
          : p \in partial_loop(st, st.buy_orders, FALSE) }

check_price_rise(st) ==
  UNION { IF ~ p.st.buy_order_filled /\ ~ p.any
          THEN { IF m.ret # None /\ m.st.base_price # None
                    /\ m.ret > MulFrac(m.st.base_price, FracScale + rise_to_sell)
                 THEN [m.st EXCEPT !.new_cycle_flag = TRUE]
                 ELSE m.st
                 : m \in get_market_price(p.st) }
          ELSE {p.st}
          : p \in partial_loop(st, st.buy_orders, FALSE) }

\* ---- state machine ----

\* An order that left tracking is never queried again: the model forgets the
\* exchange's status of it, and its history once no tracked order refers to it.
Tracked(s) == SeqIds(s.buy_orders) \cup SeqIds(s.sell_orders)

Install(s) ==
  \E tracked \in {Tracked(s)} :
  \E relevant \in {tracked \cup {s.log[i].src : i \in tracked}
                            \cup {i \in Ids : s.log[i].src \in tracked}} :
  /\ buy_orders' = s.buy_orders
  /\ sell_orders' = s.sell_orders
  /\ buy_order_filled' = s.buy_order_filled
  /\ base_price' = s.base_price
  /\ new_cycle_flag' = s.new_cycle_flag
  /\ status' = [i \in Ids |-> IF i \in tracked THEN s.status[i] ELSE "NONE"]
  /\ next_id' = s.next_id
  /\ log' = [i \in Ids |-> IF i \in relevant THEN s.log[i] ELSE NoLog]
  /\ trace' = s.trace
  /\ before' = [buy_orders |-> buy_orders, sell_orders |-> sell_orders]

Init ==
  /\ buy_orders = <<>>
  /\ sell_orders = <<>>
  /\ buy_order_filled = FALSE
  /\ base_price = None
  /\ new_cycle_flag = TRUE
  /\ pc = "cycle"
  /\ status = [i \in Ids |-> "NONE"]
  /\ next_id = 1
  /\ log = [i \in Ids |-> NoLog]
  /\ trace = <<>>
  /\ last_start = "skipped"
  /\ ran = "init"
  /\ before = [buy_orders |-> <<>>, sell_orders |-> <<>>]

\* outcome of a cycle start, read off its result
StartOutcome(s) ==
  IF s.base_price = None THEN "noprice"
  ELSE IF Len(s.buy_orders) < max_buy_times THEN "partial"
  ELSE "ok"

\* the model follows the loop until the exchange has handed out MaxId ids
Running == next_id <= MaxId

\* faulty variant of TradeCycle: new_cycle_flag is cleared only by a start
\* that placed the whole ladder
TradeCycle_keepflag ==
  /\ Running
  /\ pc = "cycle"
  /\ pc' = "fill"
  /\ ran' = "cycle"
  /\ IF new_cycle_flag \/ base_price = None
     THEN \E s0 \in {St} : \E s \in start_trade_cycle(s0) :
            /\ \E s1 \in {[s EXCEPT !.new_cycle_flag = (StartOutcome(s) # "ok")]} : Install(s1)
            /\ last_start' = StartOutcome(s)
     ELSE /\ \E s0 \in {St} : Install(s0)
          /\ last_start' = "skipped"

\* trade, lines 261-264: the cycle-start check of a tick
TradeCycle ==
  /\ Running
  /\ pc = "cycle"
  /\ pc' = "fill"
  /\ ran' = "cycle"
  /\ IF new_cycle_flag \/ base_price = None
     THEN \E s0 \in {St} : \E s \in start_trade_cycle(s0) :
            /\ \E s1 \in {[s EXCEPT !.new_cycle_flag = FALSE]} : Install(s1)
            /\ last_start' = StartOutcome(s)
     ELSE /\ \E s0 \in {St} : Install(s0)
          /\ last_start' = "skipped"

\* trade, line 266
FillDetect ==
  /\ Running
  /\ pc = "fill"
  /\ pc' = "replace"
  /\ ran' = "fill"
  /\ \E s0 \in {St} : \E s \in check_and_place_sell_orders(s0) : Install(s)
  /\ UNCHANGED last_start

\* trade, line 267
Replenish ==
  /\ Running
  /\ pc = "replace"
  /\ pc' = "rise"
  /\ ran' = "replace"
  /\ \E s0 \in {St} : \E s \in check_and_replace_buy_orders(s0) : Install(s)
  /\ UNCHANGED last_start

\* trade, lines 268-270
PriceRise ==
  /\ Running
  /\ pc = "rise"
  /\ pc' = "cycle"
  /\ ran' = "rise"
  /\ \E s0 \in {St} : \E s \in check_price_rise(s0) : Install(s)
  /\ UNCHANGED last_start

\* the exchange fills (part of) an open order; orders the controller no
\* longer tracks are never queried again and are left as they are
ExchangeFill ==
  /\ Running
  /\ \E id \in SeqIds(buy_orders) \cup SeqIds(sell_orders) :
       /\ status[id] \in Open
       /\ \E n \in {"PARTIALLY_FILLED", "FILLED"} :
            /\ n # status[id]
            /\ status' = [status EXCEPT ![id] = n]
  /\ trace' = <<>>
  /\ ran' = "exchange"
  /\ before' = [buy_orders |-> buy_orders, sell_orders |-> sell_orders]
  /\ UNCHANGED <<buy_orders, sell_orders, buy_order_filled, base_price, new_cycle_flag,
                 pc, next_id, log, last_start>>

Next == TradeCycle \/ FillDetect \/ Replenish \/ PriceRise \/ ExchangeFill

Spec == Init /\ [][Next]_vars

\* ---- reading the history ----

Sel(tr, op) == SelectSeq(tr, LAMBDA e : e.op = op)

\* the sells recorded by conversion of buy b
ConvOf(lg, b) == {j \in Ids : lg[j].kind = "conv" /\ lg[j].src = b}

\* ---- C1 ----
\* C1: a tracked buy that the exchange reports as fully filled leaves buy
\* tracking only in a step after which a sell made for it is recorded; no
\* cycle start drops a fully filled, not yet converted buy.
C1_NoOrphanedFills ==
  [][\A b \in SeqIds(buy_orders) :
       (status[b] = "FILLED" /\ b \notin SeqIds(buy_orders'))
         => \E j \in ConvOf(log', b) : j \in SeqIds(sell_orders')]_vars

\* ---- C2 ----
\* C2: the number of simultaneously tracked buy orders never exceeds max_buy_times.
C2_AtMostMaxBuys == Len(buy_orders) <= max_buy_times

\* ---- C3 ----
\* C3: when a rung submission failed during the cycle start of a tick, the
\* next tick starts the cycle again: at the beginning of the next tick the
\* condition of the cycle start (new_cycle_flag or no base price) holds.
C3_FailedLadderRetried ==
  (pc = "cycle" /\ last_start = "partial") => (new_cycle_flag \/ base_price = None)

\* the first status pass of check_and_replace_buy_orders reported every one of
\* the sells tracked before the step FILLED (tr is the trace of the step)
FirstPassAllFilled(tr, sells) ==
  LET st == Sel(tr, "status")
  IN  /\ Len(st) >= Len(sells)
      /\ \A k \in 1..Len(sells) : st[k].id = sells[k].id /\ st[k].res = "FILLED"

\* the order the exchange acknowledges for a successful create event
Acked(e) == [id |-> e.id, price |-> TickFloor(e.price), origQty |-> RoundQty(e.qty)]

\* ---- C4 ----
\* C4 as stated: new_cycle_flag becomes true in a step if and only if the step
\* is a replenishment in which every tracked sell (none included) is reported
\* FILLED.
C4_CompletionIffAllFilled ==
  [][(~ new_cycle_flag /\ new_cycle_flag')
       <=> (ran' = "replace" /\ FirstPassAllFilled(trace', sell_orders))]_vars

\* C4 amended: replenishment sets new_cycle_flag if and only if at least one
\* sell is tracked and the first status pass reports every tracked sell FILLED;
\* the only other step that sets it is the price-rise check.
C4_CompletionAmended ==
  [][/\ ran' = "replace"
          => (new_cycle_flag' <=> (Len(sell_orders) > 0 /\ FirstPassAllFilled(trace', sell_orders)))
     /\ (~ new_cycle_flag /\ new_cycle_flag') => ran' \in {"replace", "rise"}]_vars

C4_Witness ==
  /\ ran = "replace"
  /\ new_cycle_flag
  /\ Len(trace) >= 1
  /\ \A k \in 1..Len(trace) : trace[k].op = "status" /\ trace[k].res = "FILLED"

\* ---- C5 ----
\* C5: at most one sell is ever recorded for a buy and a converted buy is not
\* tracked; fill detection submits sells only for buys tracked before it and
\* not converted before it (every sell of such a buy is one it has just
\* recorded), and none after the successful submission for the buy.
C5_OneSellPerBuy ==
  /\ \A j \in Ids :
       log[j].kind = "conv"
         => /\ log[j].src \notin SeqIds(buy_orders)
            /\ \A i \in Ids \ {j} : log[i].kind = "conv" => log[i].src # log[j].src
  /\ ran = "fill" =>
       \A k \in 1..Len(trace) :
         trace[k].op = "create" =>
           /\ trace[k].side = "sell"
           /\ trace[k].src \in SeqIds(before.buy_orders)
           /\ \A j \in ConvOf(log, trace[k].src) :
                \E m \in 1..Len(trace) : trace[m].op = "create" /\ trace[m].id = j
           /\ \A m \in 1..(k - 1) :
                ~ (trace[m].op = "create" /\ trace[m].src = trace[k].src /\ trace[m].res = "ok")

\* fill detection has run again in a tick after the one that converted a buy
C5_Witness ==
  /\ ran = "fill"
  /\ \E j \in SeqIds(sell_orders) :
       /\ log[j].kind = "conv"
       /\ \A k \in 1..Len(trace) : trace[k].id # j

\* ---- C6 ----
\* C6: every tracked sell recorded by conversion was submitted with the quantity of the
\* buy it was made for and at that buy's price times (1 + rise_to_sell),
\* before tick rounding.
C6_SellMirrorsBuy ==
  \A j \in SeqIds(sell_orders) :
    log[j].kind = "conv"
      => /\ log[j].src \in Ids
         /\ log[log[j].src].kind \in {"ladder", "repl"}
         /\ log[j].req_qty = log[log[j].src].origQty
         /\ log[j].req_price = MulFrac(log[log[j].src].price, FracScale + rise_to_sell)

\* the scenario: buy at 598.8 for 1.5 gives a sell at 599.3988 for 1.5
C6_Witness ==
  \E j \in SeqIds(sell_orders) :
    /\ log[j].kind = "conv"
    /\ log[log[j].src].price = 59880000
    /\ log[log[j].src].origQty = 15000
    /\ log[j].req_price = 59939880
    /\ log[j].req_qty = 15000

\* ---- C7 ----
\* C7: in a replenishment that does not complete the cycle, each sell the
\* second pass reports FILLED gets exactly one buy submission, at the sell's
\* price times (1 - drop_to_buy) for the sell's quantity; on success the sell
\* leaves tracking and the buy is recorded, on failure the sell stays and no
\* buy is recorded; no sell ever has more than one replacement buy recorded.
C7_Replenishment ==
  /\ \A j \in Ids :
       log[j].kind = "repl"
         => \A i \in Ids \ {j} : log[i].kind = "repl" => log[i].src # log[j].src
  /\ (ran = "replace" /\ ~ (Len(before.sell_orders) > 0 /\ FirstPassAllFilled(trace, before.sell_orders)))
       => LET n  == Len(before.sell_orders)
              st == Sel(trace, "status")
              cr == Sel(trace, "create")
          IN  /\ Len(st) = 2 * n
              /\ \A e \in {cr[i] : i \in 1..Len(cr)} : e.src \in SeqIds(before.sell_orders)
              /\ Len(buy_orders) = Len(before.buy_orders) + Len(SelectSeq(cr, LAMBDA e : e.res = "ok"))
              /\ \A k \in 1..n :
                   LET o == before.sell_orders[k]
                       c == SelectSeq(cr, LAMBDA e : e.src = o.id)
                   IN  /\ st[n + k].id = o.id
                       /\ Len(c) = IF st[n + k].res = "FILLED" THEN 1 ELSE 0
                       /\ Len(c) = 0 => o.id \in SeqIds(sell_orders)
                       /\ \A i \in 1..Len(c) :
                            /\ c[i].side = "buy"
                            /\ c[i].price = MulFrac(o.price, FracScale - drop_to_buy)
                            /\ c[i].qty = o.origQty
                            /\ IF c[i].res = "ok"
                               THEN /\ o.id \notin SeqIds(sell_orders)
                                    /\ \E m \in 1..Len(buy_orders) : buy_orders[m] = Acked(c[i])
                               ELSE o.id \in SeqIds(sell_orders)

\* a replenishment in which one submission succeeded and another failed
C7_Witness ==
  /\ ran = "replace"
  /\ \E k \in 1..Len(trace) : trace[k].op = "create" /\ trace[k].res = "ok"
                              /\ trace[k].id \in SeqIds(buy_orders)
  /\ \E k \in 1..Len(trace) : trace[k].op = "create" /\ trace[k].res = "None"
                              /\ trace[k].src \in SeqIds(sell_orders)

\* ---- C8 ----
\* C8: a replenishment whose first status pass reports every tracked sell (at
\* least one) FILLED sets new_cycle_flag and submits and records no buy.
C8_CompleteNoReplenish ==
  (ran = "replace" /\ Len(before.sell_orders) > 0 /\ FirstPassAllFilled(trace, before.sell_orders))
    => /\ new_cycle_flag
       /\ Sel(trace, "create") = <<>>
       /\ buy_orders = before.buy_orders

\* two sells, both reported FILLED: the cycle is complete, one of them is left
C8_Witness ==
  /\ ran = "replace"
  /\ new_cycle_flag
  /\ Len(Sel(trace, "status")) = 2
  /\ Sel(trace, "status")[1].res = "FILLED" /\ Sel(trace, "status")[2].res = "FILLED"
  /\ Len(sell_orders) = 1
  /\ Sel(trace, "create") = <<>>

\* ---- C9 ----
\* C9: a cycle start that gets the market price and whose placements all
\* succeed submits max_buy_times buys, rung i at base_price * (1 - drop_to_buy * i),
\* each for (total_margin / max_buy_times) * leverage / base_price, and
\* afterwards exactly the acknowledged rungs are the tracked buys.
C9_FullLadder ==
  LET cr == Sel(trace, "create")
      pr == Sel(trace, "price")
  IN  (/\ ran = "cycle"
       /\ Len(pr) = 1 /\ pr[1].res = "ok"
       /\ \A i \in 1..Len(cr) : cr[i].res = "ok")
      => /\ Len(cr) = max_buy_times
         /\ base_price = pr[1].price
         /\ \A i \in 1..Len(cr) :
              /\ cr[i].side = "buy"
              /\ cr[i].price = MulFrac(base_price, FracScale - drop_to_buy * i)
              /\ cr[i].qty = DivPrice(((total_margin * QtyScale) \div max_buy_times) * leverage,
                                      base_price)
         /\ buy_orders = [i \in 1..Len(cr) |-> Acked(cr[i])]

\* the scenario: base price 600 gives rungs at 599.4 and 598.8, after a cycle
\* start that had an earlier ladder to cancel
C9_Witness ==
  /\ ran = "cycle"
  /\ base_price = 600 * PriceScale
  /\ Len(buy_orders) = max_buy_times
  /\ buy_orders[1].price = 59940000
  /\ buy_orders[2].price = 59880000
  /\ Sel(trace, "cancel") # <<>>
  /\ \A i \in 1..max_buy_times : Sel(trace, "create")[i].id = buy_orders[i].id

\* ---- C10 ----
\* C10: when the submission of rung k fails, the tracked buys are exactly the
\* acknowledged rungs 1..k-1 and nothing is submitted after rung k.
C10_FailedRung ==
  LET cr == Sel(trace, "create")
  IN  (ran = "cycle" /\ \E k \in 1..Len(cr) : cr[k].res = "None")
      => /\ cr[Len(cr)].res = "None"
         /\ \A i \in 1..(Len(cr) - 1) : cr[i].res = "ok"
         /\ buy_orders = [i \in 1..(Len(cr) - 1) |-> Acked(cr[i])]
         /\ Len(cr) <= max_buy_times

\* rung 1 acknowledged, rung 2 failed
C10_Witness ==
  /\ ran = "cycle"
  /\ Len(Sel(trace, "create")) = 2
  /\ Sel(trace, "create")[1].res = "ok"
  /\ Sel(trace, "create")[2].res = "None"
  /\ Len(buy_orders) = 1
  /\ buy_orders[1].id = Sel(trace, "create")[1].id

\* ---- C11 ----
\* C11: a cycle start in which the market price is unavailable leaves the
\* tracked buy orders, the tracked sell orders and the buy-filled flag as they
\* were before the step, and the next tick starts the cycle again (the
\* condition of the cycle start holds after the step).
C11_MissingPriceKeepsState ==
  [][(ran' = "cycle" /\ \E k \in 1..Len(trace') : trace'[k].op = "price" /\ trace'[k].res = "None")
       => /\ buy_orders' = buy_orders
          /\ sell_orders' = sell_orders
          /\ buy_order_filled' = buy_order_filled
          /\ (new_cycle_flag' \/ base_price' = None)]_vars

\* ---- C12 ----
\* C12: a buy order is never removed from buy tracking while it is still open
\* on the exchange: when a buy leaves tracking in a step, no cancellation
\* request of that step left it open.
C12_NoOpenBuyDropped ==
  [][\A b \in SeqIds(buy_orders) :
       b \notin SeqIds(buy_orders')
         => ~ \E k \in 1..Len(trace') :
                trace'[k].op = "cancel" /\ trace'[k].id = b /\ trace'[k].res \in Open]_vars

CreatesFor(tr, b) == SelectSeq(tr, LAMBDA e : e.op = "create" /\ e.src = b)

\* the status events of a step for order b
StatusOf(tr, b) == SelectSeq(tr, LAMBDA e : e.op = "status" /\ e.id = b)

\* ---- C15 ----
\* C15: in fill detection every tracked buy reported fully filled (also one
\* whose conversion failed in an earlier tick) gets at least one and at most
\* 3 sell submissions, none after the first success; when all 3 fail the buy
\* stays tracked and no sell is recorded for it, and on success the buy leaves
\* tracking and the acknowledged sell is recorded.
C15_ThreeTries ==
  ran = "fill"
    => \A k \in 1..Len(before.buy_orders) :
         LET o == before.buy_orders[k]
             c == CreatesFor(trace, o.id)
             q == StatusOf(trace, o.id)
         IN  /\ Len(q) = 1
             /\ Len(c) <= 3
             /\ \A i \in 1..(Len(c) - 1) : c[i].res = "None"
             /\ (q[1].res = "FILLED" /\ q[1].qty = o.origQty) => Len(c) >= 1
             /\ (Len(c) >= 1 /\ c[Len(c)].res = "None")
                  => /\ Len(c) = 3
                     /\ o.id \in SeqIds(buy_orders)
                     /\ ConvOf(log, o.id) = {}
             /\ (Len(c) >= 1 /\ c[Len(c)].res = "ok")
                  => /\ o.id \notin SeqIds(buy_orders)
                     /\ \E m \in 1..Len(sell_orders) : sell_orders[m] = Acked(c[Len(c)])

\* one buy is converted at its second submission, another is given up after
\* 3 failed submissions
C15_Witness ==
  /\ ran = "fill"
  /\ \E k \in 1..Len(before.buy_orders) :
       LET c == CreatesFor(trace, before.buy_orders[k].id)
       IN  /\ Len(c) = 2
           /\ c[2].res = "ok"
           /\ before.buy_orders[k].id \notin SeqIds(buy_orders)
  /\ \E k \in 1..Len(buy_orders) :
       LET c == CreatesFor(trace, buy_orders[k].id)
       IN  Len(c) = 3 /\ c[3].res = "None"

\* ---- C16 ----
\* C16: fill detection queries every tracked buy once; the buy-filled flag is
\* true after it exactly when it was true before or some buy was reported
\* FILLED or PARTIALLY_FILLED; sells are submitted for a buy exactly when it
\* is so reported with the filled quantity equal to its requested quantity,
\* and then for that quantity; every other buy (partially filled with less,
\* query failed, other status) stays tracked with no submission.
C16_FillDetection ==
  [][ran' = "fill"
       => LET filled(o) == \E k \in 1..Len(trace') :
                             /\ trace'[k].op = "status"
                             /\ trace'[k].id = o.id
                             /\ trace'[k].res \in {"FILLED", "PARTIALLY_FILLED"}
          IN  /\ buy_order_filled'
                   = (buy_order_filled \/ \E k \in 1..Len(buy_orders) : filled(buy_orders[k]))
              /\ \A k \in 1..Len(buy_orders) :
                   LET o == buy_orders[k]
                       q == StatusOf(trace', o.id)
                       c == CreatesFor(trace', o.id)
                   IN  /\ Len(q) = 1
                       /\ Len(c) > 0 <=> (filled(o) /\ q[1].qty = o.origQty)
                       /\ \A i \in 1..Len(c) : c[i].side = "sell" /\ c[i].qty = o.origQty
                       /\ Len(c) = 0 => o.id \in SeqIds(buy_orders')
              /\ \A k \in 1..Len(trace') :
                   trace'[k].op = "create" => trace'[k].src \in SeqIds(buy_orders)]_vars

\* fill detection met a partially filled buy and one whose query failed: the
\* flag went up, both stay tracked and nothing was submitted
C16_Witness ==
  /\ ran = "fill"
  /\ buy_order_filled
  /\ Len(buy_orders) = 2
  /\ Sel(trace, "status")[1].res = "PARTIALLY_FILLED"
  /\ Sel(trace, "status")[2].res = "None"
  /\ Sel(trace, "create") = <<>>
  /\ sell_orders = <<>>

\* ---- C17 ----
\* the replenishment that ran last completed the cycle
Completed ==
  /\ ran = "replace"
  /\ Len(before.sell_orders) > 0
  /\ FirstPassAllFilled(trace, before.sell_orders)

\* a completion removes the last sell queried and no other; the sells left
\* are FILLED
LastSellRemoved ==
  Completed
    => /\ new_cycle_flag
       /\ sell_orders = SubSeq(before.sell_orders, 1, Len(before.sell_orders) - 1)
       /\ \A k \in 1..Len(sell_orders) : status[sell_orders[k].id] = "FILLED"

C19_BuyFilledLatch ==
  [][/\ (buy_order_filled /\ ~ buy_order_filled')
          => (ran' = "cycle" /\ Len(Sel(trace', "price")) = 1)
     /\ (~ buy_order_filled /\ buy_order_filled') => ran' = "fill"
     /\ (ran' = "rise" /\ buy_order_filled)
          => (Sel(trace', "price") = <<>> /\ new_cycle_flag' = new_cycle_flag)
     /\ (buy_order_filled /\ ~ new_cycle_flag /\ new_cycle_flag')
          => /\ ran' = "replace"
             /\ Len(sell_orders) > 0
             /\ FirstPassAllFilled(trace', sell_orders)]_vars

\* the filled buys are converted and their sells replenished: the flag is
\* still up and the price-rise check fetched no price
C19_Witness ==
  /\ ran = "rise"
  /\ buy_order_filled
  /\ ~ new_cycle_flag
  /\ sell_orders = <<>>
  /\ Len(buy_orders) > 0
  /\ \A k \in 1..Len(buy_orders) : log[buy_orders[k].id].kind = "repl"
  /\ Len(trace) = Len(buy_orders)
  /\ \A k \in 1..Len(trace) : trace[k].op = "status"
====
